---- MODULE Spec2Model ----
(***************************************************************************)
(* A model of src/app.py: the three-stage research pipeline                *)
(* (plan_searches -> perform_searches -> write_report) driven by           *)
(* run_research_pipeline, together with its pure helpers extract_json,     *)
(* json_safe, search_web's normalisation and build_references.             *)
(*                                                                         *)
(* Representation.  A Python str is a sequence of one-character strings;   *)
(* fixed literals of the source ("## References\n\n", the error prefix)    *)
(* are single tokens of such a sequence.  A model response is a record     *)
(*   [text |-> token sequence, vals |-> key -> value]                      *)
(* whose text is the lexical skeleton of the response ("{", "}", ",",      *)
(* prose "p", and one token per member, named by its key) and whose vals   *)
(* gives the value that follows each key.  Progress fractions are exact    *)
(* rationals <<num, den>>.  The labels (desc=...) of progress events are   *)
(* not modelled.                                                           *)
(***************************************************************************)
EXTENDS Integers, Sequences, FiniteSets, TLC

VARIABLES
    pc,          \* position of run_research_pipeline
    query,       \* the query argument
    trace,       \* what the collaborators observe: progress events, calls, returns
    requests,    \* payload of each external call, in issue order
    plan,        \* search_plan.searches
    idx,         \* the loop variable i of perform_searches
    results,     \* the list results of perform_searches
    modelReport, \* ReportData as validated from the model response
    report,      \* the ReportData object write_report returns
    exc,         \* the exception caught at line 254, <<>> when none
    out,         \* the returned triple, <<>> before the return
    text,        \* extract_json: argument
    extracted,   \* extract_json: outcome
    epc,         \* extract_json: position
    outcomes,    \* build_references: argument
    refs,        \* build_references: returned markdown
    rpc          \* build_references: position

vars == <<pc, query, trace, requests, plan, idx, results, modelReport, report,
          exc, out, text, extracted, epc, outcomes, refs, rpc>>
pipeVars == <<pc, query, trace, requests, plan, idx, results, modelReport,
              report, exc, out>>
extractVars == <<text, extracted, epc>>
refVars == <<outcomes, refs, rpc>>

----------------------------------------------------------------------------
(* Bounds and program constants *)

MaxQueryLen == 3
MaxPlan == 3
MaxTextLen == 4
MaxOutcomes == 2
MaxRecords == 3

NUM_SEARCHES == 3
PreviewLen == 500
MinQueryLen == 3

----------------------------------------------------------------------------
(* Sequences *)

RECURSIVE SeqsUpTo(_, _)
SeqsUpTo(S, n) ==
    IF n = 0 THEN {<<>>}
    ELSE LET shorter == SeqsUpTo(S, n - 1)
         IN shorter \cup {Append(s, x) : s \in {t \in shorter : Len(t) = n - 1}, x \in S}

Take(s, n) == SubSeq(s, 1, IF Len(s) < n THEN Len(s) ELSE n)

RECURSIVE Flatten(_)
Flatten(ss) == IF ss = <<>> THEN <<>> ELSE Head(ss) \o Flatten(Tail(ss))

RECURSIVE Join(_, _)
Join(sep, ss) ==
    IF ss = <<>> THEN <<>>
    ELSE IF Len(ss) = 1 THEN Head(ss)
    ELSE Head(ss) \o sep \o Join(sep, Tail(ss))

----------------------------------------------------------------------------
(* str.strip() and the validation of line 227 *)

IsSpace(c) == c \in {" ", "\t", "\n", "\r"}

RECURSIVE LStrip(_)
LStrip(s) == IF s # <<>> /\ IsSpace(Head(s)) THEN LStrip(Tail(s)) ELSE s

RECURSIVE RStrip(_)
RStrip(s) ==
    IF s # <<>> /\ IsSpace(s[Len(s)]) THEN RStrip(SubSeq(s, 1, Len(s) - 1)) ELSE s

Strip(s) == RStrip(LStrip(s))

InvalidQueryNoStrip(q) == Len(q) = 0 \/ Len(q) < MinQueryLen

InvalidQuery(q) == Len(q) = 0 \/ Len(Strip(q)) < MinQueryLen

----------------------------------------------------------------------------
(* json_safe, and json.dumps / json.loads on a str *)

EscapeChar(c) ==
    IF c = "\\" THEN <<"\\", "\\">>
    ELSE IF c = "\"" THEN <<"\\", "\"">>
    ELSE IF c = "\n" THEN <<"\\", "n">>
    ELSE IF c = "\r" THEN <<"\\", "r">>
    ELSE <<c>>

json_safe(s) == Flatten([k \in 1..Len(s) |-> EscapeChar(s[k])])

JsonDumpsStr(s) == <<"\"">> \o Flatten([k \in 1..Len(s) |-> EscapeChar(s[k])]) \o <<"\"">>

RECURSIVE Unescape(_)
Unescape(t) ==
    IF t = <<>> THEN <<>>
    ELSE IF Head(t) = "\\" /\ Len(t) >= 2
         THEN <<(IF t[2] = "n" THEN "\n" ELSE IF t[2] = "r" THEN "\r" ELSE t[2])>>
              \o Unescape(SubSeq(t, 3, Len(t)))
    ELSE <<Head(t)>> \o Unescape(Tail(t))

JsonLoadsStr(t) == Unescape(SubSeq(t, 2, Len(t) - 1))

----------------------------------------------------------------------------
(* extract_json (lines 43-55) *)

MemberTokens == {"k", "searches", "short_summary", "markdown_report", "follow_up_questions"}

Positions(t, c) == {k \in 1..Len(t) : t[k] = c}

Min(S) == CHOOSE x \in S : \A y \in S : x <= y
Max(S) == CHOOSE x \in S : \A y \in S : x >= y

NoSpan == <<0, 0>>

\* a non-greedy pattern \{.*?\} : first "{" to the first "}" after it
MatchSpanLazy(t) ==
    IF Positions(t, "{") = {} THEN NoSpan
    ELSE LET a == Min(Positions(t, "{"))
             after == {k \in Positions(t, "}") : k > a}
         IN IF after = {} THEN NoSpan ELSE <<a, Min(after)>>

\* re.search(r"\{.*\}", text, re.DOTALL): leftmost "{" that has a "}" after it,
\* extended greedily to the last "}" of the text
MatchSpan(t) ==
    IF Positions(t, "{") = {} THEN NoSpan
    ELSE LET a == Min(Positions(t, "{"))
             after == {k \in Positions(t, "}") : k > a}
         IN IF after = {} THEN NoSpan ELSE <<a, Max(after)>>

\* json.loads accepts the span: "{" member ("," member)* "}" or "{" "}"
IsJsonObject(span) ==
    /\ Len(span) >= 2
    /\ span[1] = "{"
    /\ span[Len(span)] = "}"
    /\ LET inner == SubSeq(span, 2, Len(span) - 1)
       IN \/ inner = <<>>
          \/ /\ Len(inner) % 2 = 1
             /\ \A k \in 1..Len(inner) :
                   IF k % 2 = 1 THEN inner[k] \in MemberTokens ELSE inner[k] = ","

\* the dict json.loads returns: one entry per key of the span
JsonLoadsObject(span, vals) ==
    [key \in {span[k] : k \in 2..(Len(span) - 1)} \ {","} |-> vals[key]]

EmptyObject == [key \in {} |-> 0]

ExtractionError == <<"No JSON object found in text.">>

ParseError(t) ==
    <<"Failed to parse JSON: ", "<JSONDecodeError>", "\nPreview: ">> \o Take(t, PreviewLen)

extract_json(t, vals) ==
    LET m == MatchSpan(t)
    IN IF m = NoSpan
       THEN [ok |-> FALSE, value |-> EmptyObject, err |-> ExtractionError]
       ELSE LET span == SubSeq(t, m[1], m[2])
            IN IF IsJsonObject(span)
               THEN [ok |-> TRUE, value |-> JsonLoadsObject(span, vals), err |-> <<>>]
               ELSE [ok |-> FALSE, value |-> EmptyObject, err |-> ParseError(t)]

----------------------------------------------------------------------------
(* The pydantic models (lines 23-33) *)

\* WebSearchItem: reason and query are required
ItemValid(it) == {"reason", "query"} \subseteq DOMAIN it

\* WebSearchPlan(**data): searches is required, a list of WebSearchItem
PlanValid(data) ==
    /\ "searches" \in DOMAIN data
    /\ \A k \in 1..Len(data.searches) : ItemValid(data.searches[k])

WebSearchPlan(data) ==
    [k \in 1..Len(data.searches) |->
        [reason |-> data.searches[k].reason, query |-> data.searches[k].query]]

\* ReportData(**data): the three fields are required
ReportValid(data) ==
    {"short_summary", "markdown_report", "follow_up_questions"} \subseteq DOMAIN data

ReportData(data) ==
    [short_summary |-> data.short_summary,
     markdown_report |-> data.markdown_report,
     follow_up_questions |-> data.follow_up_questions]

SchemaError(model) == <<"validation error for ", model>>

----------------------------------------------------------------------------
(* search_web (lines 58-86) and the json.loads of line 158 *)

NoTitle == <<"N", "o", " ", "t", "i", "t", "l", "e">>

Get(r, key, default) == IF key \in DOMAIN r THEN r[key] ELSE default

Normalise(r) ==
    [title |-> Get(r, "title", NoTitle),
     url |-> Get(r, "link", <<>>),
     snippet |-> Get(r, "snippet", <<>>)]

JsonDumps(o) ==
    [query |-> JsonDumpsStr(o.query),
     reason |-> JsonDumpsStr(o.reason),
     results |-> [k \in 1..Len(o.results) |->
                    [title |-> JsonDumpsStr(o.results[k].title),
                     url |-> JsonDumpsStr(o.results[k].url),
                     snippet |-> JsonDumpsStr(o.results[k].snippet)]],
     summary |-> JsonDumpsStr(o.summary)]

JsonLoads(j) ==
    [query |-> JsonLoadsStr(j.query),
     reason |-> JsonLoadsStr(j.reason),
     results |-> [k \in 1..Len(j.results) |->
                    [title |-> JsonLoadsStr(j.results[k].title),
                     url |-> JsonLoadsStr(j.results[k].url),
                     snippet |-> JsonLoadsStr(j.results[k].snippet)]],
     summary |-> JsonLoadsStr(j.summary)]

\* a slip that files the query under both keys
search_web_reason_lost(q, reason, data) ==
    LET organic == Get(data, "organic_results", <<>>)
        res == [k \in 1..Len(organic) |-> Normalise(organic[k])]
    IN JsonDumps([query |-> q, reason |-> q, results |-> res,
                  summary |-> <<"Top ", ToString(Len(res)), " search results for '">>
                              \o q \o <<"'">>])

search_web(q, reason, data) ==
    LET organic == Get(data, "organic_results", <<>>)
        res == [k \in 1..Len(organic) |-> Normalise(organic[k])]
    IN JsonDumps([query |-> q, reason |-> reason, results |-> res,
                  summary |-> <<"Top ", ToString(Len(res)), " search results for '">>
                              \o q \o <<"'">>])

----------------------------------------------------------------------------
(* build_references (lines 163-182) *)

RefHeader == <<"## References\n\n">>

RefLine(counter, title, url) ==
    <<ToString(counter), ". [">> \o title \o <<"](">> \o url \o <<")\n">>

AllRecords(search_results) ==
    Flatten([k \in 1..Len(search_results) |-> search_results[k].results])

\* the loop body of lines 174-180 over the records in iteration order
RECURSIVE RefLoop(_, _, _, _)
RefLoop(recs, seen, md, counter) ==
    IF recs = <<>> THEN md
    ELSE LET title == Get(Head(recs), "title", NoTitle)
             url == Get(Head(recs), "url", <<>>)
             key == <<title, url>>
         IN IF key \notin seen /\ url # <<>>
            THEN RefLoop(Tail(recs), seen \cup {key}, md \o RefLine(counter, title, url),
                         counter + 1)
            ELSE RefLoop(Tail(recs), seen, md, counter)

\* deduplication keyed on the url alone
RECURSIVE RefLoopByUrl(_, _, _, _)
RefLoopByUrl(recs, seen, md, counter) ==
    IF recs = <<>> THEN md
    ELSE LET title == Get(Head(recs), "title", NoTitle)
             url == Get(Head(recs), "url", <<>>)
         IN IF url \notin seen /\ url # <<>>
            THEN RefLoopByUrl(Tail(recs), seen \cup {url},
                              md \o RefLine(counter, title, url), counter + 1)
            ELSE RefLoopByUrl(Tail(recs), seen, md, counter)

build_references_by_url(search_results) ==
    RefLoopByUrl(AllRecords(search_results), {}, RefHeader, 1)

build_references(search_results) ==
    RefLoop(AllRecords(search_results), {}, RefHeader, 1)

----------------------------------------------------------------------------
(* Inputs of one pipeline run: the query, and what the collaborators answer *)

QueryChars == {" ", "a"}
Queries == SeqsUpTo(QueryChars, MaxQueryLen)

PlanItem(k) == [reason |-> <<"r", "\\", ToString(k)>>, query |-> <<"q", "\"", ToString(k)>>]
GoodPlan(n) == [k \in 1..n |-> PlanItem(k)]

PlannerResponses ==
    {[text |-> <<"p", "{", "searches", "}", "p">>, vals |-> [searches |-> GoodPlan(n)]] :
        n \in 0..MaxPlan}
    \cup
    { \* prose without any JSON object
      [text |-> <<"p", "p">>, vals |-> [searches |-> <<>>]],
      \* braces around something that is not JSON
      [text |-> <<"{", "p", "}">>, vals |-> [searches |-> <<>>]],
      \* two sibling objects
      [text |-> <<"{", "searches", "}", "{", "searches", "}">>,
       vals |-> [searches |-> GoodPlan(1)]],
      \* a JSON object without the searches key
      [text |-> <<"{", "}">>, vals |-> [searches |-> <<>>]],
      \* an item without its query
      [text |-> <<"{", "searches", "}">>, vals |-> [searches |-> <<[reason |-> <<"r">>]>>]],
      \* an item whose strings are empty
      [text |-> <<"{", "searches", "}">>,
       vals |-> [searches |-> <<[reason |-> <<>>, query |-> <<>>]>>]] }

RawA == [title |-> <<"A">>, link |-> <<"u">>, snippet |-> <<"s">>]
RawB == [title |-> <<"B">>, link |-> <<"u">>, snippet |-> <<"\n">>]
RawNoLink == [title |-> <<"C">>, snippet |-> <<"s">>]
RawNoTitle == [link |-> <<"v">>]

ProviderResponses ==
    { [search_metadata |-> <<"e">>],
      [organic_results |-> <<RawA, RawNoLink>>],
      [organic_results |-> <<RawB, RawA, RawNoTitle>>] }

ReportText ==
    <<"p", "{", "short_summary", ",", "markdown_report", ",", "follow_up_questions", "}">>

ReportVals(md, fq) ==
    [short_summary |-> <<"S", "\"">>, markdown_report |-> md, follow_up_questions |-> fq]

ReportResponses ==
    { [text |-> ReportText, vals |-> ReportVals(<<"# Report\n">>, <<>>)],
      [text |-> ReportText, vals |-> ReportVals(<<"# Report\n">>, <<<<"x">>, <<"y">>>>)],
      \* the model wrote a references section of its own
      [text |-> ReportText,
       vals |-> ReportVals(<<"# Report\n", "## References\n\n">>, <<<<"x">>>>)],
      [text |-> <<"p">>, vals |-> ReportVals(<<>>, <<>>)],
      [text |-> <<"{", "short_summary", "markdown_report", "}">>,
       vals |-> ReportVals(<<>>, <<>>)],
      [text |-> <<"{", "short_summary", "}">>, vals |-> ReportVals(<<>>, <<>>)] }

----------------------------------------------------------------------------
(* What the progress sink and the external services observe *)

Progress(kind, i, frac) ==
    [ev |-> "progress", kind |-> kind, idx |-> i, num |-> frac[1], den |-> frac[2]]

Call(kind, i) == [ev |-> "call", kind |-> kind, idx |-> i, num |-> 0, den |-> 1]
Returned(kind, i) == [ev |-> "ok", kind |-> kind, idx |-> i, num |-> 0, den |-> 1]
Failed(kind, i) == [ev |-> "fail", kind |-> kind, idx |-> i, num |-> 0, den |-> 1]

\* 0.2 + (0.6 * i / total)
SearchFractionWide(i, total) == <<2 * total + 6 * i, 10 * total>>

\* line 156: 0.2 + (0.5 * i / total)
SearchFraction(i, total) == <<2 * total + 5 * i, 10 * total>>

----------------------------------------------------------------------------
(* run_research_pipeline (lines 223-256) *)

ValidationMsg == <<"(x) Please enter a valid research query (at least 3 characters)">>
ErrorPrefix == <<"(x) Error: ">>

ModelCallError == <<"model call failed">>
ProviderError == <<"provider call failed">>

NoReport == [short_summary |-> <<>>, markdown_report |-> <<>>, follow_up_questions |-> <<>>]

\* a handler that hands back what the run had gathered
RaisePartial(e) ==
    /\ exc' = e
    /\ out' = <<ErrorPrefix \o e, build_references(results), <<>>>>
    /\ pc' = "done"

\* lines 254-256: except Exception as e
Raise(e) ==
    /\ exc' = e
    /\ out' = <<ErrorPrefix \o e, <<>>, <<>>>>
    /\ pc' = "done"

\* lines 225-230
Validate ==
    /\ pc = "idle"
    /\ IF InvalidQuery(query)
       THEN /\ out' = <<ValidationMsg, <<>>, <<>>>>
            /\ pc' = "done"
            /\ UNCHANGED trace
       ELSE /\ trace' = Append(trace, Progress("start", 0, <<0, 1>>))
            /\ pc' = "plan"
            /\ UNCHANGED out
    /\ UNCHANGED <<query, requests, plan, idx, results, modelReport, report, exc>>
    /\ UNCHANGED <<extractVars, refVars>>

\* plan_searches, lines 126-139: progress(0.1), then the model call is issued
PlannerIssue ==
    /\ pc = "plan"
    /\ trace' = trace \o <<Progress("plan", 0, <<1, 10>>), Call("planner", 0)>>
    /\ requests' = Append(requests, [kind |-> "planner", query |-> query])
    /\ pc' = "plan_wait"
    /\ UNCHANGED <<query, plan, idx, results, modelReport, report, exc, out>>
    /\ UNCHANGED <<extractVars, refVars>>

\* plan_searches, lines 132-139: the model call raises
PlannerFailed ==
    /\ trace' = Append(trace, Failed("planner", 0))
    /\ Raise(ModelCallError)
    /\ UNCHANGED <<plan, idx, results>>

\* plan_searches, lines 141-149, and the entry of perform_searches, lines 152-153
PlannerAnswered(r) ==
    LET x == extract_json(r.text, r.vals)
    IN IF ~x.ok
       THEN /\ trace' = Append(trace, Returned("planner", 0))
            /\ Raise(x.err)
            /\ UNCHANGED <<plan, idx, results>>
       ELSE IF ~PlanValid(x.value)
       THEN /\ trace' = Append(trace, Returned("planner", 0))
            /\ Raise(SchemaError("WebSearchPlan"))
            /\ UNCHANGED <<plan, idx, results>>
       ELSE /\ plan' = WebSearchPlan(x.value)
            /\ trace' = trace \o <<Returned("planner", 0), Progress("planned", 0, <<2, 10>>)>>
            /\ idx' = 1
            /\ results' = <<>>
            /\ pc' = "search"
            /\ UNCHANGED <<exc, out>>

PlannerReturn ==
    /\ pc = "plan_wait"
    /\ \/ PlannerFailed
       \/ \E r \in PlannerResponses : PlannerAnswered(r)
    /\ UNCHANGED <<query, requests, modelReport, report>>
    /\ UNCHANGED <<extractVars, refVars>>

\* the provider call is issued first and the event follows it
SearchIssueCallFirst ==
    /\ pc = "search"
    /\ idx <= Len(plan)
    /\ trace' = trace \o <<Call("search", idx),
                           Progress("search", idx, SearchFraction(idx, Len(plan)))>>
    /\ requests' = Append(requests, [kind |-> "search", query |-> plan[idx].query])
    /\ pc' = "search_wait"
    /\ UNCHANGED <<query, plan, idx, results, modelReport, report, exc, out>>
    /\ UNCHANGED <<extractVars, refVars>>

\* perform_searches, lines 155-157: progress(...), then search_web issues the call
SearchIssue ==
    /\ pc = "search"
    /\ idx <= Len(plan)
    /\ trace' = trace \o <<Progress("search", idx, SearchFraction(idx, Len(plan))),
                           Call("search", idx)>>
    /\ requests' = Append(requests, [kind |-> "search", query |-> plan[idx].query])
    /\ pc' = "search_wait"
    /\ UNCHANGED <<query, plan, idx, results, modelReport, report, exc, out>>
    /\ UNCHANGED <<extractVars, refVars>>

\* a loop that swallows the failure and goes on to the next item
SearchFailedSkip ==
    /\ trace' = Append(trace, Failed("search", idx))
    /\ idx' = idx + 1
    /\ pc' = "search"
    /\ UNCHANGED <<results, exc, out>>

\* search_web, lines 69-70: the provider call raises; nothing in
\* perform_searches catches it
SearchFailed ==
    /\ trace' = Append(trace, Failed("search", idx))
    /\ Raise(ProviderError)
    /\ UNCHANGED <<results, idx>>

\* search_web, lines 72-86, and perform_searches, lines 158-159
SearchAnswered(d) ==
    /\ trace' = Append(trace, Returned("search", idx))
    /\ results' = Append(results, JsonLoads(search_web(plan[idx].query, plan[idx].reason, d)))
    /\ idx' = idx + 1
    /\ pc' = "search"
    /\ UNCHANGED <<exc, out>>

SearchReturn ==
    /\ pc = "search_wait"
    /\ \/ SearchFailed
       \/ \E d \in ProviderResponses : SearchAnswered(d)
    /\ UNCHANGED <<query, requests, plan, modelReport, report>>
    /\ UNCHANGED <<extractVars, refVars>>

\* perform_searches, lines 161-162
SearchesDone ==
    /\ pc = "search"
    /\ idx > Len(plan)
    /\ trace' = Append(trace, Progress("searched", 0, <<7, 10>>))
    /\ pc' = "write"
    /\ UNCHANGED <<query, requests, plan, idx, results, modelReport, report, exc, out>>
    /\ UNCHANGED <<extractVars, refVars>>

\* write_report, lines 190-194: the digest of the outcomes
Digest(search_results) ==
    [k \in 1..Len(search_results) |->
        [query |-> json_safe(search_results[k].query),
         reason |-> json_safe(search_results[k].reason),
         urls |-> [j \in 1..Len(search_results[k].results) |->
                     json_safe(Get(search_results[k].results[j], "url", <<>>))]]]

\* write_report, lines 185-210: progress(0.75), then the model call is issued
WriteIssue ==
    /\ pc = "write"
    /\ trace' = trace \o <<Progress("write", 0, <<75, 100>>), Call("report", 0)>>
    /\ requests' = Append(requests, [kind |-> "report", query |-> json_safe(query),
                                     digest |-> Digest(results)])
    /\ pc' = "write_wait"
    /\ UNCHANGED <<query, plan, idx, results, modelReport, report, exc, out>>
    /\ UNCHANGED <<extractVars, refVars>>

\* the section is appended here and once more by the caller
AppendReferencesTwice(rep, search_results) ==
    [rep EXCEPT !.markdown_report =
        @ \o <<"\n\n">> \o build_references(search_results)
          \o <<"\n\n">> \o build_references(search_results)]

\* write_report, lines 217-218
AppendReferences(rep, search_results) ==
    [rep EXCEPT !.markdown_report = @ \o <<"\n\n">> \o build_references(search_results)]

\* write_report, lines 203-210: the model call raises
WriteFailed ==
    /\ trace' = Append(trace, Failed("report", 0))
    /\ Raise(ModelCallError)
    /\ UNCHANGED <<modelReport, report>>

\* write_report, lines 212-221
WriteAnswered(r) ==
    LET x == extract_json(r.text, r.vals)
    IN IF ~x.ok
       THEN /\ trace' = Append(trace, Returned("report", 0))
            /\ Raise(x.err)
            /\ UNCHANGED <<modelReport, report>>
       ELSE IF ~ReportValid(x.value)
       THEN /\ trace' = Append(trace, Returned("report", 0))
            /\ Raise(SchemaError("ReportData"))
            /\ UNCHANGED <<modelReport, report>>
       ELSE /\ modelReport' = ReportData(x.value)
            /\ report' = AppendReferences(ReportData(x.value), results)
            /\ trace' = trace \o <<Returned("report", 0), Progress("complete", 0, <<1, 1>>)>>
            /\ pc' = "format"
            /\ UNCHANGED <<exc, out>>

WriteReturn ==
    /\ pc = "write_wait"
    /\ \/ WriteFailed
       \/ \E r \in ReportResponses : WriteAnswered(r)
    /\ UNCHANGED <<query, requests, plan, idx, results>>
    /\ UNCHANGED <<extractVars, refVars>>

\* line 250
FormatFollowUp(questions) ==
    Join(<<"\n">>, [k \in 1..Len(questions) |-> <<ToString(k), ". ">> \o questions[k]])

\* lines 250-252
Finish ==
    /\ pc = "format"
    /\ out' = <<report.short_summary, report.markdown_report,
                FormatFollowUp(report.follow_up_questions)>>
    /\ pc' = "done"
    /\ UNCHANGED <<query, trace, requests, plan, idx, results, modelReport, report, exc>>
    /\ UNCHANGED <<extractVars, refVars>>

Init ==
    /\ pc = "idle"
    /\ query \in Queries
    /\ trace = <<>>
    /\ requests = <<>>
    /\ plan = <<>>
    /\ idx = 0
    /\ results = <<>>
    /\ modelReport = NoReport
    /\ report = NoReport
    /\ exc = <<>>
    /\ out = <<>>
    /\ text = <<>>
    /\ extracted = [ok |-> FALSE, value |-> EmptyObject, err |-> <<>>]
    /\ epc = "off"
    /\ outcomes = <<>>
    /\ refs = <<>>
    /\ rpc = "off"

Next ==
    \/ Validate
    \/ PlannerIssue
    \/ PlannerReturn
    \/ SearchIssue
    \/ SearchReturn
    \/ SearchesDone
    \/ WriteIssue
    \/ WriteReturn
    \/ Finish

Spec == Init /\ [][Next]_vars

----------------------------------------------------------------------------
(* extract_json on arbitrary texts *)

TextTokens == {"{", "}", ",", "k", "p"}
Texts == SeqsUpTo(TextTokens, MaxTextLen)
KVals == [k |-> <<"1">>]

InitExtract ==
    /\ text \in Texts
    /\ extracted = [ok |-> FALSE, value |-> EmptyObject, err |-> <<>>]
    /\ epc = "call"
    /\ pc = "off"
    /\ query = <<>>
    /\ trace = <<>>
    /\ requests = <<>>
    /\ plan = <<>>
    /\ idx = 0
    /\ results = <<>>
    /\ modelReport = NoReport
    /\ report = NoReport
    /\ exc = <<>>
    /\ out = <<>>
    /\ outcomes = <<>>
    /\ refs = <<>>
    /\ rpc = "off"

Extract ==
    /\ epc = "call"
    /\ extracted' = extract_json(text, KVals)
    /\ epc' = "returned"
    /\ UNCHANGED <<text, pipeVars, refVars>>

NextExtract == Extract

SpecExtract == InitExtract /\ [][NextExtract]_vars

----------------------------------------------------------------------------
(* build_references on arbitrary outcomes *)

RefRecords ==
    { [title |-> <<"A">>, url |-> <<"u">>, snippet |-> <<>>],
      [title |-> <<"B">>, url |-> <<"u">>, snippet |-> <<>>],
      [title |-> <<"A">>, url |-> <<"v">>, snippet |-> <<>>],
      [title |-> <<"C">>, url |-> <<>>, snippet |-> <<>>] }

Outcome(rs) == [query |-> <<"q">>, reason |-> <<"r">>, results |-> rs, summary |-> <<>>]

\* the ways of cutting the records recs into n consecutive outcomes
RECURSIVE Splits(_, _)
Splits(recs, n) ==
    IF n = 0 THEN (IF recs = <<>> THEN {<<>>} ELSE {})
    ELSE UNION {{<<Outcome(SubSeq(recs, 1, c))>> \o rest :
                    rest \in Splits(SubSeq(recs, c + 1, Len(recs)), n - 1)} :
                c \in 0..Len(recs)}

\* at most MaxOutcomes outcomes holding at most MaxRecords records in all
OutcomeLists ==
    UNION {Splits(recs, n) : recs \in SeqsUpTo(RefRecords, MaxRecords), n \in 0..MaxOutcomes}

InitRefs ==
    /\ outcomes \in OutcomeLists
    /\ refs = <<>>
    /\ rpc = "call"
    /\ pc = "off"
    /\ query = <<>>
    /\ trace = <<>>
    /\ requests = <<>>
    /\ plan = <<>>
    /\ idx = 0
    /\ results = <<>>
    /\ modelReport = NoReport
    /\ report = NoReport
    /\ exc = <<>>
    /\ out = <<>>
    /\ text = <<>>
    /\ extracted = [ok |-> FALSE, value |-> EmptyObject, err |-> <<>>]
    /\ epc = "off"

BuildReferences ==
    /\ rpc = "call"
    /\ refs' = build_references(outcomes)
    /\ rpc' = "returned"
    /\ UNCHANGED <<outcomes, pipeVars, extractVars>>

NextRefs == BuildReferences

SpecRefs == InitRefs /\ [][NextRefs]_vars

----------------------------------------------------------------------------
(* Reading the trace *)

IsPrefix(a, b) == Len(a) <= Len(b) /\ SubSeq(b, 1, Len(a)) = a

IsCall(e) == e.ev = "call"
IsProgress(e) == e.ev = "progress"

CallsOf(tr) == SelectSeq(tr, IsCall)
EventsOf(tr) == SelectSeq(tr, IsProgress)

ExpectedCalls(n) ==
    <<Call("planner", 0)>> \o [k \in 1..n |-> Call("search", k)] \o <<Call("report", 0)>>

Before(e, p) == \E p0 \in 1..(p - 1) : trace[p0] = e

Emitted(kind) == \E p \in 1..Len(trace) : IsProgress(trace[p]) /\ trace[p].kind = kind

Succeeded == pc = "done" /\ exc = <<>> /\ Emitted("complete")

ErrorTriple(e) == <<ErrorPrefix \o e, <<>>, <<>>>>

----------------------------------------------------------------------------
(* C1: the external calls of one run form a prefix of planner, search 1..n  *)
(* in plan order, report; a search is issued only after the planner call    *)
(* returned and the plan was validated, the report call only after every    *)
(* planned search returned, no call is issued twice, and no call is issued  *)
(* after a call has failed.                                                 *)
C1_CallOrder ==
    /\ IsPrefix(CallsOf(trace), ExpectedCalls(Len(plan)))
    /\ \A p \in 1..Len(trace) :
          /\ (IsCall(trace[p]) /\ trace[p].kind = "search") =>
                /\ Before(Returned("planner", 0), p)
                /\ Before(Progress("planned", 0, <<2, 10>>), p)
          /\ (IsCall(trace[p]) /\ trace[p].kind = "report") =>
                \A k \in 1..Len(plan) : Before(Returned("search", k), p)
          /\ trace[p].ev = "fail" =>
                \A p2 \in (p + 1)..Len(trace) : ~IsCall(trace[p2])

C1_Witness ==
    /\ pc = "done"
    /\ Len(plan) = NUM_SEARCHES
    /\ CallsOf(trace) = ExpectedCalls(NUM_SEARCHES)

(* C2: once a stage has raised, the run returns the error-marked message    *)
(* of that exception with an empty report and an empty follow-up list,      *)
(* whatever the run had gathered before.                                    *)
C2_ErrorTriple ==
    /\ exc # <<>> => pc = "done" /\ out = ErrorTriple(exc)
    /\ (\E p \in 1..Len(trace) : trace[p].ev = "fail") =>
          /\ pc = "done"
          /\ out[1] \in {ErrorPrefix \o ModelCallError, ErrorPrefix \o ProviderError}
          /\ out[2] = <<>>
          /\ out[3] = <<>>
    /\ (pc = "done" /\ ~InvalidQuery(query) /\ ~Emitted("complete")) =>
          /\ exc # <<>>
          /\ out = ErrorTriple(exc)

C2_Witness ==
    /\ pc = "done"
    /\ exc = ProviderError
    /\ Len(results) >= 1
    /\ \E k \in 1..Len(results) : results[k].results # <<>>

NonWhitespace(q) == Cardinality({k \in 1..Len(q) : ~IsSpace(q[k])})

Rejected == pc = "done" /\ out = <<ValidationMsg, <<>>, <<>>>> /\ trace = <<>> /\ requests = <<>>

(* C3 as claimed: a query with fewer than 3 non-whitespace characters is    *)
(* answered with the validation message and starts no stage.                *)
C3_FewNonWhitespaceRejected ==
    (pc # "idle" /\ (Len(query) = 0 \/ NonWhitespace(query) < MinQueryLen)) => Rejected

(* C3 amended: a query that is empty, or shorter than 3 characters once its *)
(* leading and trailing whitespace is removed, is answered with the         *)
(* validation message, with empty report and follow-up fields, and no       *)
(* model call, provider call or progress event happens.                     *)
C3_ShortStrippedRejected ==
    (pc # "idle" /\ (Len(query) = 0 \/ Len(Strip(query)) < MinQueryLen)) => Rejected

C3_Witness ==
    /\ Rejected
    /\ Len(query) >= MinQueryLen
    /\ NonWhitespace(query) >= 1

(* C5: when perform_searches has completed on a plan of n items it holds    *)
(* n outcomes, the i-th carrying the query and reason of the i-th item,     *)
(* and every provider call returned before the next one was issued.         *)
C5_OutcomesMatchPlan ==
    /\ Emitted("searched") =>
          /\ Len(results) = Len(plan)
          /\ \A k \in 1..Len(plan) :
                /\ results[k].query = plan[k].query
                /\ results[k].reason = plan[k].reason
    /\ \A p \in 1..Len(trace) :
          (IsCall(trace[p]) /\ trace[p].kind = "search" /\ p < Len(trace)) =>
              trace[p + 1] \in {Returned("search", trace[p].idx), Failed("search", trace[p].idx)}

C5_Witness ==
    /\ Emitted("searched")
    /\ Len(plan) = NUM_SEARCHES
    /\ Len(results) = NUM_SEARCHES

(* C6: every plan plan_searches returns has NUM_SEARCHES items, each with   *)
(* a non-empty query and a non-empty reason.                                *)
C6_PlanShape ==
    Emitted("planned") =>
        /\ Len(plan) = NUM_SEARCHES
        /\ \A k \in 1..Len(plan) : plan[k].query # <<>> /\ plan[k].reason # <<>>

(* C7 as claimed: when the progress event of search i is emitted, the       *)
(* provider call of search i has already returned.                          *)
C7_EventAfterCompletion ==
    \A p \in 1..Len(trace) :
        (IsProgress(trace[p]) /\ trace[p].kind = "search") =>
            Before(Returned("search", trace[p].idx), p)

(* C7 amended: the progress event of search i is emitted immediately before *)
(* the provider call of search i is issued, after the searches before it    *)
(* have returned; so a search that fails has already produced its event.    *)
C7_EventBeforeCall ==
    \A p \in 1..Len(trace) :
        /\ (IsCall(trace[p]) /\ trace[p].kind = "search") =>
              /\ p > 1
              /\ IsProgress(trace[p - 1])
              /\ trace[p - 1].kind = "search"
              /\ trace[p - 1].idx = trace[p].idx
        /\ (IsProgress(trace[p]) /\ trace[p].kind = "search") =>
              /\ \A p0 \in 1..(p - 1) :
                    ~(trace[p0].kind = "search" /\ trace[p0].idx = trace[p].idx)
              /\ \A j \in 1..(trace[p].idx - 1) : Before(Returned("search", j), p)

C7_Witness ==
    \E p \in 1..Len(trace) :
        /\ trace[p].ev = "fail"
        /\ trace[p].kind = "search"
        /\ trace[p].idx >= 2
        /\ Before(Progress("search", trace[p].idx, SearchFraction(trace[p].idx, Len(plan))), p)

Count(s, c) == Cardinality({k \in 1..Len(s) : s[k] = c})

NumberedLine(k, q) == (IF k > 1 THEN <<"\n">> ELSE <<>>) \o <<ToString(k), ". ">> \o q

(* C8: on a successful run the returned report is the model's report with   *)
(* the output of build_references over all outcomes appended once, the      *)
(* summary is the model's, and the follow-up questions come back in model   *)
(* order as a list numbered from 1.                                         *)
C8_ReportAssembled ==
    Succeeded =>
        /\ out[1] = modelReport.short_summary
        /\ out[2] = modelReport.markdown_report \o <<"\n\n">> \o build_references(results)
        /\ Count(out[2], RefHeader[1]) = Count(modelReport.markdown_report, RefHeader[1]) + 1
        /\ out[2][Len(out[2]) - Len(build_references(results)) + 1] = RefHeader[1]
        /\ out[3] = Flatten([k \in 1..Len(modelReport.follow_up_questions) |->
                               NumberedLine(k, modelReport.follow_up_questions[k])])

C8_Witness ==
    /\ Succeeded
    /\ Len(results) >= 1
    /\ \A k \in 1..Len(results) : results[k].results = <<>>
    /\ Len(modelReport.follow_up_questions) >= 2

FracLeq(a, b) == a.num * b.den <= b.num * a.den

(* C10: the fractions given to the progress sink lie in [0,1] and never     *)
(* decrease, for every plan length, and 1.0 is emitted only in a run that   *)
(* returns a successful result.                                             *)
C10_ProgressMonotone ==
    LET ev == EventsOf(trace)
    IN /\ \A k \in 1..Len(ev) : ev[k].den > 0 /\ 0 <= ev[k].num /\ ev[k].num <= ev[k].den
       /\ \A k \in 1..(Len(ev) - 1) : FracLeq(ev[k], ev[k + 1])
       /\ (\E k \in 1..Len(ev) : ev[k].num = ev[k].den) =>
             /\ exc = <<>>
             /\ pc \in {"format", "done"}
             /\ pc = "done" => out[1] = modelReport.short_summary /\ out[2] = report.markdown_report

C10_Witness ==
    /\ Succeeded
    /\ Len(plan) = 0
    /\ Len(EventsOf(trace)) >= 6

----------------------------------------------------------------------------
PairAt(recs, j) == <<recs[j].title, recs[j].url>>

Kept(recs) ==
    {j \in 1..Len(recs) :
        /\ recs[j].url # <<>>
        /\ \A j0 \in 1..(j - 1) : PairAt(recs, j0) # PairAt(recs, j)}

NthKept(recs, n) ==
    CHOOSE j \in Kept(recs) : Cardinality({j0 \in Kept(recs) : j0 <= j}) = n

(* C4: build_references emits one entry for each distinct (title, url)      *)
(* pair with a non-empty url, none for a record with an empty url, in       *)
(* first-occurrence order, numbered 1, 2, ..., k.                           *)
C4_References ==
    rpc = "returned" =>
        LET recs == AllRecords(outcomes)
        IN refs = RefHeader \o
                  Flatten([n \in 1..Cardinality(Kept(recs)) |->
                             RefLine(n, recs[NthKept(recs, n)].title,
                                     recs[NthKept(recs, n)].url)])

C4_Witness ==
    /\ rpc = "returned"
    /\ Len(outcomes) = 2
    /\ \E a \in 1..Len(outcomes[1].results), b \in 1..Len(outcomes[2].results) :
          /\ outcomes[1].results[a] = outcomes[2].results[b]
          /\ outcomes[1].results[a].url # <<>>
          /\ a # b
    /\ \E k \in 1..Len(outcomes) : \E a \in 1..Len(outcomes[k].results) :
          outcomes[k].results[a].url = <<>>

----------------------------------------------------------------------------
HasSpan(t) == \E a \in Positions(t, "{"), b \in Positions(t, "}") : a < b

GreedySpan(t) == SubSeq(t, Min(Positions(t, "{")), Max(Positions(t, "}")))

EndsWith(s, tail) == Len(tail) <= Len(s) /\ SubSeq(s, Len(s) - Len(tail) + 1, Len(s)) = tail

====
